---- MODULE Spec2Model ----
(***************************************************************************)
(* A model of edgar-rs: the rate governor (src/src/rate_limit.rs), the     *)
(* request path of EdgarClient (src/src/client.rs, src/src/http.rs and the *)
(* transports under src/src/http/), and the CIK formatting rule            *)
(* (src/src/utils/cik.rs).                                                 *)
(*                                                                         *)
(* Strings whose characters matter (CIK arguments) are sequences of        *)
(* one-character strings.  Time is counted in refill intervals: the clock  *)
(* of the governor is the number of replenisher ticks so far.              *)
(***************************************************************************)
EXTENDS Integers, Sequences, FiniteSets, TLC

VARIABLES
    \* ---- RateLimiter (rate_limit.rs) ----
    rate,           \* RateLimiter.rate
    per_seconds,    \* RateLimiter.per_seconds
    permits,        \* permits of RateLimiter.semaphore that can be taken at once
    waiters,        \* the semaphore's FIFO queue of suspended acquire() calls
    pc,             \* per task: "idle", "waiting" or "holding" (inside acquire())
    replenisher,    \* the spawned task: [state, sleep_duration]
    ticks,          \* replenisher ticks so far (the clock, in refill intervals)
    ncalls,         \* acquire() calls started so far
    completedAt,    \* completedAt[k]: acquire() calls completed at clock value k
    handles,        \* the RateLimiter values: the original and its clones
    \* ---- EdgarClient (client.rs) ----
    client,         \* the constructed client: [transport, user_agent]
    cpc,            \* position of the endpoint call in progress
    call,           \* the call in progress: [endpoint, cik, url_cik]
    request,        \* the headers of the request sent for the call
    wire,           \* what the network did with the request
    disk,           \* the temporary file and the destination directory
    response,       \* what the transport returned for the call
    result,         \* what the call returns to its caller
    callTrace,      \* the steps taken on behalf of the call, in order
    nrequests,      \* endpoint calls returned so far
    \* ---- format_cik (utils/cik.rs) ----
    cikInput,       \* the argument string being built
    cikOutput,      \* format_cik(cikInput) once applied
    cikValid,       \* is_valid_cik(cikInput) once applied
    cikPhase,       \* "typing" or "formatted"
    \* ---- the pure functions (error.rs, types.rs, config.rs, models/) ----
    fnArg,          \* the argument a function is applied to
    fnOut,          \* the value it returned
    fnPhase         \* "given" or "applied"

govVars == <<rate, per_seconds, permits, waiters, pc, replenisher, ticks, ncalls,
             completedAt, handles>>
cliVars == <<client, cpc, call, request, wire, response, result, callTrace,
             nrequests, disk>>
cikVars == <<cikInput, cikOutput, cikValid, cikPhase>>
fnVars == <<fnArg, fnOut, fnPhase>>
vars == <<govVars, cliVars, cikVars, fnVars>>

----------------------------------------------------------------------------
(* Bounds of the model *)

NumTasks == 3
MaxAcquires == 4
MaxTicks == 2
MaxRate == 2
MaxPerSeconds == 1
MaxRequests == 2
MaxCikLen == 11
MaxNoise == 1
MaxHandles == 2

Tasks == 1..NumTasks

----------------------------------------------------------------------------
(* Helpers *)

Min(a, b) == IF a < b THEN a ELSE b

RECURSIVE SumTo(_, _)
SumTo(f, k) == IF k < 0 THEN 0 ELSE f[k] + SumTo(f, k - 1)

RECURSIVE SumRange(_, _, _)
SumRange(f, lo, hi) == IF lo > hi THEN 0 ELSE f[lo] + SumRange(f, lo + 1, hi)

RECURSIVE Count(_, _)
Count(s, x) ==
    IF s = <<>> THEN 0
    ELSE (IF Head(s) = x THEN 1 ELSE 0) + Count(Tail(s), x)

----------------------------------------------------------------------------
(* RateLimiter *)

\* Semaphore::new(rate as usize)
InitialPermitsNone(r) == 0
InitialPermits(r) == r

\* Duration::from_millis((per_seconds as u64 * 1000) / rate as u64); the
\* division panics when rate is 0, which ends the spawned task.
sleep_duration(r, p) == (p * 1000) \div r

\* semaphore.add_permits(1) of the replenisher loop
TwoPermitsPerTick == 1 + 1
PermitsPerTick == 1

\* `_permit` goes out of scope at the end of acquire(): a SemaphorePermit
\* gives its permit back to the semaphore when dropped.
PermitsForgotten == 1 - 1
PermitsReturnedOnDrop == 1

\* The waiter a released permit is handed to: the semaphore queue is FIFO.
NextWaiter(q) == Head(q)

\* Semaphore::add_permits(n) for n in {0, 1}: a queued waiter is served
\* before the permit becomes claimable by a new caller.
add_permits(n, pcNow) ==
    IF n = 0
    THEN /\ permits' = permits
         /\ waiters' = waiters
         /\ pc' = pcNow
    ELSE IF waiters # <<>>
    THEN /\ permits' = permits
         /\ waiters' = Tail(waiters)
         /\ pc' = [pcNow EXCEPT ![NextWaiter(waiters)] = "holding"]
    ELSE /\ permits' = permits + n
         /\ waiters' = waiters
         /\ pc' = pcNow

\* The RateLimiter values in existence.  pools[h] is the semaphore the h-th
\* value (1 is the one new returned, the others are clones) refers to, live
\* the values not dropped yet, spawned the number of replenisher tasks
\* started, ticksAtLastDrop the clock when the last live value was dropped.
NewHandle == [pools |-> <<1>>, live |-> {1}, spawned |-> 1, ticksAtLastDrop |-> -1]

\* RateLimiter::new(rate, per_seconds): the semaphore is built and the
\* replenisher is spawned; the spawned task has not run yet.
GovInit ==
    /\ rate \in 0..MaxRate
    /\ per_seconds \in 1..MaxPerSeconds
    /\ permits = InitialPermits(rate)
    /\ waiters = <<>>
    /\ pc = [t \in Tasks |-> "idle"]
    /\ replenisher = [state |-> "spawned", sleep_duration |-> 0]
    /\ ticks = 0
    /\ ncalls = 0
    /\ completedAt = [k \in 0..MaxTicks |-> 0]
    /\ handles = NewHandle

\* First step of the spawned task: compute sleep_duration, then loop.
ReplenisherStartClamped ==
    /\ replenisher.state = "spawned"
    /\ replenisher' = [state |-> "sleeping",
                       sleep_duration |-> IF rate = 0
                                          THEN per_seconds * 1000
                                          ELSE sleep_duration(rate, per_seconds)]
    /\ UNCHANGED <<rate, per_seconds, permits, waiters, pc, ticks, ncalls,
                   completedAt, handles>>
    /\ UNCHANGED <<cliVars, cikVars, fnVars>>
ReplenisherStart ==
    /\ replenisher.state = "spawned"
    /\ replenisher' =
         IF rate = 0
         THEN [state |-> "panicked", sleep_duration |-> 0]
         ELSE [state |-> "sleeping",
               sleep_duration |-> sleep_duration(rate, per_seconds)]
    /\ UNCHANGED <<rate, per_seconds, permits, waiters, pc, ticks, ncalls,
                   completedAt, handles>>
    /\ UNCHANGED <<cliVars, cikVars, fnVars>>

\* One turn of the loop: sleep(sleep_duration).await; add_permits(1).
Tick ==
    /\ replenisher.state = "sleeping"
    /\ ticks < MaxTicks
    /\ ticks' = ticks + 1
    /\ add_permits(PermitsPerTick, pc)
    /\ UNCHANGED <<rate, per_seconds, replenisher, ncalls, completedAt, handles>>
    /\ UNCHANGED <<cliVars, cikVars, fnVars>>

\* A task calls acquire(): self.semaphore.acquire().await takes a permit at
\* once when one is available and otherwise queues the caller.
acquire(t) ==
    /\ pc[t] = "idle"
    /\ handles.live # {}
    /\ ncalls < MaxAcquires
    /\ ncalls' = ncalls + 1
    /\ IF permits > 0
       THEN /\ permits' = permits - 1
            /\ pc' = [pc EXCEPT ![t] = "holding"]
            /\ waiters' = waiters
       ELSE /\ permits' = permits
            /\ pc' = [pc EXCEPT ![t] = "waiting"]
            /\ waiters' = Append(waiters, t)
    /\ UNCHANGED <<rate, per_seconds, replenisher, ticks, completedAt, handles>>
    /\ UNCHANGED <<cliVars, cikVars, fnVars>>

\* acquire() returns: the scope of `_permit` ends, the permit is dropped.
acquire_return(t) ==
    /\ pc[t] = "holding"
    /\ add_permits(PermitsReturnedOnDrop, [pc EXCEPT ![t] = "idle"])
    /\ completedAt' = [completedAt EXCEPT ![ticks] = @ + 1]
    /\ UNCHANGED <<rate, per_seconds, replenisher, ticks, ncalls, handles>>
    /\ UNCHANGED <<cliVars, cikVars, fnVars>>

\* #[derive(Clone)]: the clone holds the same Arc<Semaphore>, rate and
\* per_seconds; no start_replenisher.
CloneViaNew(hs, h) ==
    [hs EXCEPT !.pools = Append(@, Len(hs.pools) + 1),
               !.live = @ \cup {Len(hs.pools) + 1},
               !.spawned = @ + 1]
clone(hs, h) ==
    [hs EXCEPT !.pools = Append(@, hs.pools[h]),
               !.live = @ \cup {Len(hs.pools) + 1}]

clone_handle(h) ==
    /\ h \in handles.live
    /\ Len(handles.pools) < MaxHandles
    /\ handles' = clone(handles, h)
    /\ UNCHANGED <<rate, per_seconds, permits, waiters, pc, replenisher, ticks,
                   ncalls, completedAt>>
    /\ UNCHANGED <<cliVars, cikVars, fnVars>>

\* A RateLimiter value is dropped (no Drop impl: its Arc is released).  The
\* last value cannot go while a task is inside acquire(&self).
drop_handle(h) ==
    /\ h \in handles.live
    /\ handles.live = {h} => \A t \in Tasks : pc[t] = "idle"
    /\ handles' = [handles EXCEPT
                      !.live = @ \ {h},
                      !.ticksAtLastDrop = IF handles.live = {h} THEN ticks ELSE @]
    /\ UNCHANGED <<rate, per_seconds, permits, waiters, pc, replenisher, ticks,
                   ncalls, completedAt>>
    /\ UNCHANGED <<cliVars, cikVars, fnVars>>

\* The Acquire future of a suspended acquire() is dropped: tokio takes the
\* waiter out of the semaphore's queue.
LeaveInQueue(q, t) == q
remove_waiter(q, t) == SelectSeq(q, LAMBDA x : x # t)

cancel(t) ==
    /\ pc[t] = "waiting"
    /\ waiters' = remove_waiter(waiters, t)
    /\ pc' = [pc EXCEPT ![t] = "idle"]
    /\ UNCHANGED <<rate, per_seconds, permits, replenisher, ticks, ncalls,
                   completedAt, handles>>
    /\ UNCHANGED <<cliVars, cikVars, fnVars>>

----------------------------------------------------------------------------
(* format_cik and is_valid_cik (utils/cik.rs) *)

Digits == <<"0", "1", "2", "3", "4", "5", "6", "7", "8", "9">>

\* char::is_ascii_digit
is_ascii_digit(c) == \E i \in 1..10 : Digits[i] = c

DigitValue(c) == (CHOOSE i \in 1..10 : Digits[i] = c) - 1

\* cik.chars().filter(|c| c.is_ascii_digit()).collect::<String>()
KeepEverything(s) == s
clean_cik(s) == SelectSeq(s, is_ascii_digit)

\* clean_cik.len() > 10
MaxCikDigits == 10
NeverTooLong(clean) == FALSE
too_long(clean) == Len(clean) > MaxCikDigits

\* Unsigned integers of the program are written as decimal numerals: the
\* sequence of their digits, most significant first, without leading zeros.
RECURSIVE StripLeadingZeros(_)
StripLeadingZeros(ds) ==
    IF Len(ds) > 1 /\ Head(ds) = "0" THEN StripLeadingZeros(Tail(ds)) ELSE ds

RECURSIVE LexLeq(_, _)
LexLeq(a, b) ==
    \/ a = <<>>
    \/ DigitValue(Head(a)) < DigitValue(Head(b))
    \/ Head(a) = Head(b) /\ LexLeq(Tail(a), Tail(b))

NumeralLeq(a, b) == Len(a) < Len(b) \/ (Len(a) = Len(b) /\ LexLeq(a, b))

\* u64::MAX = 18446744073709551615
U64Max == <<"1", "8", "4", "4", "6", "7", "4", "4", "0", "7",
            "3", "7", "0", "9", "5", "5", "1", "6", "1", "5">>

\* str::parse::<u64>(): an optional '+', then one or more ASCII digits
\* denoting a number that fits 64 bits.
parse_u64(s) ==
    LET ds == IF s # <<>> /\ Head(s) = "+" THEN Tail(s) ELSE s IN
    IF ds = <<>> \/ \E i \in 1..Len(ds) : ~is_ascii_digit(ds[i])
    THEN [ok |-> FALSE, value |-> <<>>]
    ELSE IF ~NumeralLeq(StripLeadingZeros(ds), U64Max)
    THEN [ok |-> FALSE, value |-> <<>>]
    ELSE [ok |-> TRUE, value |-> StripLeadingZeros(ds)]

RECURSIVE ZeroPad(_, _)
ZeroPad(ds, width) == IF Len(ds) >= width THEN ds ELSE ZeroPad(<<"0">> \o ds, width)

\* format!("{:010}", n): the digits of n, left-padded with '0' to width 10
\* (a longer number is written in full).
PadWidth == 10
format_010(n) == ZeroPad(n, PadWidth)

\* format_cik: Ok(String) or Err(&'static str)
format_cik(s) ==
    LET clean == clean_cik(s) IN
    IF clean = <<>>
    THEN [ok |-> FALSE, value |-> <<>>, err |-> "CIK must contain at least one digit"]
    ELSE IF too_long(clean)
    THEN [ok |-> FALSE, value |-> <<>>, err |-> "CIK cannot be longer than 10 digits"]
    ELSE LET n == parse_u64(clean) IN
         IF ~n.ok
         THEN [ok |-> FALSE, value |-> <<>>, err |-> "Invalid CIK format"]
         ELSE [ok |-> TRUE, value |-> format_010(n.value), err |-> ""]

\* is_valid_cik
is_valid_cik(s) == format_cik(s).ok

\* The characters the argument strings of the model are made of: a zero, a
\* non-zero digit and a character that is not a digit.
CikAlphabet == {"0", "1", "-"}

NoiseCount(s) == Len(s) - Len(SelectSeq(s, is_ascii_digit))

\* The argument of format_cik, one character at a time.
cik_type(c) ==
    /\ cikPhase = "typing"
    /\ Len(cikInput) < MaxCikLen
    /\ is_ascii_digit(c) \/ NoiseCount(cikInput) < MaxNoise
    /\ cikInput' = Append(cikInput, c)
    /\ UNCHANGED <<cikOutput, cikValid, cikPhase>>
    /\ UNCHANGED <<govVars, cliVars, fnVars>>

\* format_cik(cikInput) and is_valid_cik(cikInput) are evaluated.
cik_apply ==
    /\ cikPhase = "typing"
    /\ cikOutput' = format_cik(cikInput)
    /\ cikValid' = is_valid_cik(cikInput)
    /\ cikPhase' = "formatted"
    /\ UNCHANGED cikInput
    /\ UNCHANGED <<govVars, cliVars, fnVars>>

----------------------------------------------------------------------------
(* EdgarClient and the transports *)

JsonEndpoints ==
    {"get_submissions_history", "get_submissions_file", "get_company_concept",
     "get_company_facts", "get_xbrl_frames", "get_company_tickers",
     "get_company_tickers_mf"}

BulkEndpoints == {"download_bulk_submissions", "download_bulk_company_facts"}

Endpoints == JsonEndpoints \cup BulkEndpoints

\* The endpoints that take a cik and pass it through format_cik.
CikKeyed == {"get_submissions_history", "get_company_concept", "get_company_facts"}

\* ReqwestClient, WorkerClient, or another implementation of HttpClient
\* handed to EdgarClient::with_client.
Transports == {"reqwest", "worker", "custom"}

UserAgents == {"agent-a", "agent-b"}

\* The cik arguments tried: no character, no digit, one digit, digits with
\* noise, 10 digits, 11 digits.
CikSamples ==
    { <<>>,
      <<"-">>,
      <<"1">>,
      <<"0", "1", "-">>,
      <<"1", "2", "3", "4", "5", "6", "7", "8", "9", "0">>,
      <<"1", "2", "3", "4", "5", "6", "7", "8", "9", "0", "1">> }

Statuses == {100, 200, 299, 300, 404, 429, 500, 503}

\* The Retry-After header of a response: absent, or present with a value.
RetryAfterHeaders ==
    { [present |-> FALSE, value |-> <<>>],
      [present |-> TRUE, value |-> <<"3", "0">>],
      [present |-> TRUE, value |-> <<"s", "o", "o", "n">>] }

\* What the network does with one request: the request cannot be built or
\* sent, or a response arrives whose body can or cannot be read.  body is
\* "good" when it is what the endpoint expects (JSON of the expected shape,
\* a well-formed archive) and "bad" otherwise.
NoResponse(n) ==
    [net |-> n, status |-> 0, retry_after |-> [present |-> FALSE, value |-> <<>>],
     body |-> "none"]

WireOutcomes ==
    {NoResponse(n) : n \in {"request_error", "send_error"}}
    \cup [net : {"ok", "body_error"}, status : Statuses,
          retry_after : RetryAfterHeaders, body : {"good", "bad"}]

\* Values of Result<T, EdgarApiError>
Ok(status, data) ==
    [tag |-> "Ok", kind |-> "none", status |-> status,
     retry_after |-> [some |-> FALSE, value |-> <<>>], data |-> data]

Err(kind) ==
    [tag |-> "Err", kind |-> kind, status |-> 0,
     retry_after |-> [some |-> FALSE, value |-> <<>>], data |-> "none"]

\* EdgarApiError::api(status, message)
api(status) == [Err("ApiError") EXCEPT !.status = status]

\* EdgarApiError::rate_limit(retry_after)
rate_limit(retry_after) == [Err("RateLimitExceeded") EXCEPT !.retry_after = retry_after]

NoResult == [tag |-> "none", kind |-> "none", status |-> 0,
             retry_after |-> [some |-> FALSE, value |-> <<>>], data |-> "none"]

\* headers.get("retry-after").and_then(|s| s.parse::<u64>().ok())
parse_retry_after(h) ==
    IF h.present /\ parse_u64(h.value).ok
    THEN [some |-> TRUE, value |-> parse_u64(h.value).value]
    ELSE [some |-> FALSE, value |-> <<>>]

\* Values of Result<HttpResponse>
HttpOk(w) ==
    [tag |-> "Ok", err |-> NoResult, status |-> w.status,
     retry_after |-> w.retry_after, body |-> w.body]

HttpErr(e) ==
    [tag |-> "Err", err |-> e, status |-> 0,
     retry_after |-> [present |-> FALSE, value |-> <<>>], body |-> "none"]

NoResponseYet ==
    [tag |-> "none", err |-> NoResult, status |-> 0,
     retry_after |-> [present |-> FALSE, value |-> <<>>], body |-> "none"]

\* ReqwestClient::get
reqwest_get(w) ==
    IF w.net \in {"request_error", "send_error"} THEN HttpErr(Err("NetworkError"))
    ELSE IF w.status = 429 THEN HttpErr(rate_limit(parse_retry_after(w.retry_after)))
    ELSE IF w.net = "body_error" THEN HttpErr(Err("NetworkError"))
    ELSE HttpOk(w)

\* WorkerClient::get
worker_get(w) ==
    IF w.net = "request_error" THEN HttpErr(Err("RequestError"))
    ELSE IF w.net = "send_error" THEN HttpErr(Err("NetworkError"))
    ELSE IF w.status = 429 THEN HttpErr(rate_limit(parse_retry_after(w.retry_after)))
    ELSE IF w.net = "body_error" THEN HttpErr(Err("RequestError"))
    ELSE HttpOk(w)

\* HttpClient::get of an implementation that reports every response it
\* receives as it is.
custom_get(w) ==
    IF w.net # "ok" THEN HttpErr(Err("NetworkError")) ELSE HttpOk(w)

http_client_get(transport, w) ==
    CASE transport = "reqwest" -> reqwest_get(w)
      [] transport = "worker" -> worker_get(w)
      [] OTHER -> custom_get(w)

\* HttpResponse::is_success
BelowThreeHundred(status) == status < 300
is_success(status) == status >= 200 /\ status < 300

\* HttpResponse::json::<T>()
DecodeAnything(r) == Ok(r.status, "decoded")
json(r) == IF r.body = "good" THEN Ok(r.status, "decoded") ELSE Err("ParseError")

\* EdgarClient::get::<T>, from the transport's answer on
get_without_429_branch(r) ==
    IF r.tag = "Err" THEN r.err
    ELSE IF ~is_success(r.status) THEN api(r.status)
    ELSE json(r)
get(r) ==
    IF r.tag = "Err" THEN r.err
    ELSE IF r.status = 429 THEN rate_limit(parse_retry_after(r.retry_after))
    ELSE IF ~is_success(r.status) THEN api(r.status)
    ELSE json(r)

\* Whether EdgarClient::get reaches response.json() on the transport's answer
reaches_json(r) == r.tag = "Ok" /\ r.status # 429 /\ is_success(r.status)

\* HttpClient::get_bytes, from the transport's answer on
get_bytes(r) ==
    IF r.tag = "Err" THEN r.err
    ELSE IF ~is_success(r.status) THEN api(r.status)
    ELSE Ok(r.status, r.body)

\* The request headers of an endpoint
AcceptOnlyForBulk(e, ua) ==
    IF e \in BulkEndpoints
    THEN {<<"Accept", "application/zip">>}
    ELSE {<<"User-Agent", ua>>}
request_headers(e, ua) ==
    IF e \in BulkEndpoints
    THEN {<<"User-Agent", ua>>, <<"Accept", "application/zip">>}
    ELSE {<<"User-Agent", ua>>}

\* Where a call goes once its request has ended in an error: the error is
\* returned to the caller (`?` and `return Err(..)`).
RetryTransient(e) ==
    IF e.kind \in {"NetworkError", "RateLimitExceeded"} THEN "ready" ELSE "done"
after_error(e) == "done"

\* ---- Temporary files and archive extraction (utils/download.rs) ----

MaxEntries == 2

\* The entries an archive is made of.  A name is its sequence of path
\* components; absolute says that it starts with '/', dir that it ends
\* with '/'.
Entry(name, absolute, dir, content) ==
    [name |-> name, absolute |-> absolute, dir |-> dir, content |-> content]

EntryPool ==
    { Entry(<<"a.txt">>, FALSE, FALSE, "A"),
      Entry(<<"d">>, FALSE, TRUE, ""),
      Entry(<<"d", "b.txt">>, FALSE, FALSE, "B"),
      Entry(<<"d", ".", "c.txt">>, FALSE, FALSE, "C"),
      Entry(<<"..", "evil.txt">>, FALSE, FALSE, "E"),
      Entry(<<"d", "..", "..", "evil.txt">>, FALSE, FALSE, "E"),
      Entry(<<"etc", "evil.txt">>, TRUE, FALSE, "E") }

Archives == UNION {[1..n -> EntryPool] : n \in 0..MaxEntries}

\* The bytes handed to write_temp_file / extract_zip_from_memory: an
\* archive, or bytes that ZipArchive::new does not accept.
ZipBytes(ar) == [wellformed |-> TRUE, entries |-> ar]
NotAnArchive == [wellformed |-> FALSE, entries |-> <<>>]

\* What goes wrong in the file system during a call: nothing, a step of
\* write_temp_file, File::open of the archive, or the work on entry `at`.
NoFault == [step |-> "none", at |-> 0, how |-> "none"]

\* The file system: the temporary file, and what exists in and outside the
\* destination directory.  The path <<>> is the destination directory.
EmptyDisk ==
    [temp |-> "none", held |-> NotAnArchive, files |-> {}, dirs |-> {},
     outside |-> {}, fault |-> NoFault]

\* The archives a bulk download is tried with
BulkArchives == {ar \in Archives : Len(ar) <= 1}

FsFaults ==
    {[step |-> s, at |-> 0, how |-> "none"] :
        s \in {"none", "tempfile", "create", "write", "open"}}
    \cup [step : {"extract"}, at : 1..MaxEntries,
          how : {"by_index", "mkdir", "create", "copy"}]

\* The drop of the NamedTempFile removes its file.
KeptOnDrop(state) == state
after_drop(state) == "deleted"

\* write_temp_file(bytes): the result, and the disk after it has returned
write_temp_file(bytes, d, fault) ==
    IF fault.step = "tempfile"
    THEN [result |-> Err("RequestError"), disk |-> d]
    ELSE IF fault.step = "create"
    THEN [result |-> Err("RequestError"),
          disk |-> [d EXCEPT !.temp = after_drop("present")]]
    ELSE IF fault.step = "write"
    THEN [result |-> Err("RequestError"),
          disk |-> [d EXCEPT !.temp = after_drop("present")]]
    ELSE [result |-> Ok(0, "path"),
          disk |-> [d EXCEPT !.temp = after_drop("present"), !.held = bytes]]

\* ZipFile::enclosed_name: None for an absolute name and for a name that
\* climbs above its starting directory.
RECURSIVE Climbs(_, _)
Climbs(name, depth) ==
    IF name = <<>> THEN FALSE
    ELSE IF Head(name) = ".." THEN depth = 0 \/ Climbs(Tail(name), depth - 1)
    ELSE IF Head(name) = "." THEN Climbs(Tail(name), depth)
    ELSE Climbs(Tail(name), depth + 1)

NameAsWritten(e) == TRUE
enclosed_name(e) == ~e.absolute /\ ~Climbs(e.name, 0)

\* output_dir.join(p), as the file system resolves it: the path below the
\* destination directory, or a place outside it.
RECURSIVE Resolve(_, _)
Resolve(name, stack) ==
    IF name = <<>> THEN [inside |-> TRUE, path |-> stack]
    ELSE IF Head(name) = ".."
    THEN IF stack = <<>> THEN [inside |-> FALSE, path |-> name]
         ELSE Resolve(Tail(name), SubSeq(stack, 1, Len(stack) - 1))
    ELSE IF Head(name) = "." THEN Resolve(Tail(name), stack)
    ELSE Resolve(Tail(name), Append(stack, Head(name)))

join(e) ==
    IF e.absolute THEN [inside |-> FALSE, path |-> e.name]
    ELSE Resolve(e.name, <<>>)

\* std::fs::create_dir_all(path)
create_dir_all(d, path) ==
    [d EXCEPT !.dirs = @ \cup {SubSeq(path, 1, k) : k \in 0..Len(path)}]

parent(path) == SubSeq(path, 1, Len(path) - 1)

\* File::create(path) followed by io::copy of `content`
write_file(d, path, content) ==
    [d EXCEPT !.files = {f \in @ : f.path # path}
                        \cup {[path |-> path, content |-> content]}]

\* One pass of the loop of extract_zip / extract_zip_from_memory for entry
\* e: the error it returns ("none" to go on) and the disk it leaves.
extract_entry(e, d, how) ==
    IF how = "by_index" THEN [err |-> "ZipError", disk |-> d]
    ELSE IF ~enclosed_name(e) THEN [err |-> "ZipError", disk |-> d]
    ELSE IF ~join(e).inside
    THEN [err |-> "none", disk |-> [d EXCEPT !.outside = @ \cup {e.name}]]
    ELSE
      LET outpath == join(e).path IN
      IF e.dir
      THEN IF how # "none"
           THEN [err |-> "RequestError", disk |-> d]
           ELSE [err |-> "none", disk |-> create_dir_all(d, outpath)]
      ELSE
        LET p == parent(outpath) IN
        IF p \notin d.dirs /\ how = "mkdir"
        THEN [err |-> "RequestError", disk |-> d]
        ELSE IF how = "create"
        THEN [err |-> "RequestError", disk |-> create_dir_all(d, p)]
        ELSE IF how = "copy"
        THEN [err |-> "RequestError",
              disk |-> write_file(create_dir_all(d, p), outpath, "partial")]
        ELSE [err |-> "none",
              disk |-> write_file(create_dir_all(d, p), outpath, e.content)]

\* for i in 0..archive.len() { .. }  Ok(())
RECURSIVE extract_past_errors(_, _, _, _)
extract_past_errors(entries, i, d, fault) ==
    IF i > Len(entries) THEN [result |-> Ok(0, "unit"), disk |-> d, reached |-> i - 1]
    ELSE
      LET how == IF fault.step = "extract" /\ fault.at = i THEN fault.how ELSE "none"
          step == extract_entry(entries[i], d, how)
          rest == extract_past_errors(entries, i + 1, step.disk, fault)
      IN
      IF step.err # "none"
      THEN [result |-> Err(step.err), disk |-> rest.disk, reached |-> i]
      ELSE rest
RECURSIVE extract_from(_, _, _, _)
extract_from(entries, i, d, fault) ==
    IF i > Len(entries) THEN [result |-> Ok(0, "unit"), disk |-> d, reached |-> i - 1]
    ELSE
      LET how == IF fault.step = "extract" /\ fault.at = i THEN fault.how ELSE "none"
          step == extract_entry(entries[i], d, how)
      IN
      IF step.err # "none"
      THEN [result |-> Err(step.err), disk |-> step.disk, reached |-> i]
      ELSE extract_from(entries, i + 1, step.disk, fault)

\* extract_zip(zip_path, output_dir) for the temporary file as zip_path
extract_zip(d, fault) ==
    IF d.temp # "present" \/ fault.step = "open"
    THEN [result |-> Err("RequestError"), disk |-> d, reached |-> 0]
    ELSE IF ~d.held.wellformed
    THEN [result |-> Err("ZipError"), disk |-> d, reached |-> 0]
    ELSE extract_from(d.held.entries, 1, d, fault)

\* extract_zip_from_memory(zip_data, output_dir)
extract_zip_from_memory(bytes, d, fault) ==
    IF ~bytes.wellformed
    THEN [result |-> Err("ZipError"), disk |-> d, reached |-> 0]
    ELSE extract_from(bytes.entries, 1, d, fault)

NoCall == [endpoint |-> "none", cik |-> <<>>, url_cik |-> <<>>]

\* EdgarClient::with_client / new / new_worker
CliInit ==
    /\ client \in [transport : Transports, user_agent : UserAgents]
    /\ cpc = "idle"
    /\ call = NoCall
    /\ request = {}
    /\ wire = NoResponse("none")
    /\ response = NoResponseYet
    /\ result = NoResult
    /\ callTrace = <<>>
    /\ nrequests = 0
    /\ disk = EmptyDisk

\* An endpoint method is called: the cik-keyed ones format the cik first
\* and return at once when that fails.
call_endpoint(e, c) ==
    /\ cpc = "idle"
    /\ nrequests < MaxRequests
    /\ e \in BulkEndpoints => client.transport # "worker"
    /\ IF e \in CikKeyed
       THEN LET f == format_cik(c) IN
            /\ callTrace' = <<"format_cik">>
            /\ IF f.ok
               THEN /\ call' = [endpoint |-> e, cik |-> c, url_cik |-> f.value]
                    /\ cpc' = "ready"
                    /\ result' = NoResult
               ELSE /\ call' = [endpoint |-> e, cik |-> c, url_cik |-> <<>>]
                    /\ cpc' = "done"
                    /\ result' = IF client.transport = "worker"
                                 THEN Err("InvalidCik")
                                 ELSE Err("FormatCikError")
       ELSE /\ c = <<>>
            /\ callTrace' = <<>>
            /\ call' = [endpoint |-> e, cik |-> <<>>, url_cik |-> <<>>]
            /\ cpc' = "ready"
            /\ result' = NoResult
    /\ UNCHANGED <<client, request, wire, response, nrequests, disk>>
    /\ UNCHANGED <<govVars, cikVars, fnVars>>

\* self.http_client.get(url, &headers).await, directly or inside get_bytes
transport_send(w) ==
    /\ cpc = "ready"
    /\ request' = request_headers(call.endpoint, client.user_agent)
    /\ wire' = w
    /\ response' = http_client_get(client.transport, w)
    /\ callTrace' = Append(callTrace, "send")
    /\ cpc' = "responded"
    /\ UNCHANGED <<client, call, result, nrequests, disk>>
    /\ UNCHANGED <<govVars, cikVars, fnVars>>

\* The rest of EdgarClient::get for a JSON endpoint
classify_json ==
    /\ cpc = "responded"
    /\ call.endpoint \in JsonEndpoints
    /\ result' = get(response)
    /\ cpc' = IF get(response).tag = "Err" THEN after_error(get(response)) ELSE "done"
    /\ callTrace' = IF reaches_json(response)
                    THEN callTrace \o <<"classify", "json">>
                    ELSE Append(callTrace, "classify")
    /\ UNCHANGED <<client, call, request, wire, response, nrequests, disk>>
    /\ UNCHANGED <<govVars, cikVars, fnVars>>

\* The rest of get_bytes for a bulk download
classify_bytes ==
    /\ cpc = "responded"
    /\ call.endpoint \in BulkEndpoints
    /\ result' = get_bytes(response)
    /\ cpc' = IF get_bytes(response).tag = "Err"
              THEN after_error(get_bytes(response))
              ELSE "downloaded"
    /\ callTrace' = Append(callTrace, "classify")
    /\ UNCHANGED <<client, call, request, wire, response, nrequests, disk>>
    /\ UNCHANGED <<govVars, cikVars, fnVars>>

\* write_temp_file(&data)? then extract_zip(&temp_file, output_path)?
\* A body that is what the endpoint expects is the archive ar.
persist_and_extract(ar, fault) ==
    /\ cpc = "downloaded"
    /\ response.body = "bad" => ar = <<>>
    /\ LET bytes == IF response.body = "good" THEN ZipBytes(ar) ELSE NotAnArchive
           w == write_temp_file(bytes, disk, fault)
           x == extract_zip(w.disk, fault)
       IN
       IF w.result.tag = "Err"
       THEN /\ result' = w.result
            /\ disk' = [w.disk EXCEPT !.fault = fault]
            /\ callTrace' = Append(callTrace, "write_temp_file")
       ELSE /\ result' = x.result
            /\ disk' = [x.disk EXCEPT !.fault = fault]
            /\ callTrace' = callTrace \o <<"write_temp_file", "extract_zip">>
    /\ cpc' = "done"
    /\ UNCHANGED <<client, call, request, wire, response, nrequests>>
    /\ UNCHANGED <<govVars, cikVars, fnVars>>

\* The call returns `result` to its caller.
call_return ==
    /\ cpc = "done"
    /\ nrequests' = nrequests + 1
    /\ cpc' = "idle"
    /\ call' = NoCall
    /\ request' = {}
    /\ wire' = NoResponse("none")
    /\ response' = NoResponseYet
    /\ result' = NoResult
    /\ callTrace' = <<>>
    /\ disk' = EmptyDisk
    /\ UNCHANGED client
    /\ UNCHANGED <<govVars, cikVars, fnVars>>

----------------------------------------------------------------------------
(* Placeholders for the parts not in use by a specification *)

CliIdle ==
    /\ client = [transport |-> "reqwest", user_agent |-> "agent-a"]
    /\ cpc = "off"
    /\ call = NoCall
    /\ request = {}
    /\ wire = NoResponse("none")
    /\ response = NoResponseYet
    /\ result = NoResult
    /\ callTrace = <<>>
    /\ nrequests = 0
    /\ disk = EmptyDisk

CikIdle ==
    /\ cikInput = <<>>
    /\ cikOutput = [ok |-> FALSE, value |-> <<>>, err |-> ""]
    /\ cikValid = FALSE
    /\ cikPhase = "off"

FnIdle ==
    /\ fnArg = <<>>
    /\ fnOut = <<>>
    /\ fnPhase = "off"

GovIdle ==
    /\ rate = 0
    /\ per_seconds = 1
    /\ permits = 0
    /\ waiters = <<>>
    /\ pc = [t \in Tasks |-> "idle"]
    /\ replenisher = [state |-> "none", sleep_duration |-> 0]
    /\ ticks = 0
    /\ ncalls = 0
    /\ completedAt = [k \in 0..MaxTicks |-> 0]
    /\ handles = [pools |-> <<>>, live |-> {}, spawned |-> 0, ticksAtLastDrop |-> -1]

----------------------------------------------------------------------------
(* The governor on its own *)

Init == GovInit /\ CliIdle /\ CikIdle /\ FnIdle

Next ==
    \/ ReplenisherStart
    \/ Tick
    \/ \E t \in Tasks : acquire(t)
    \/ \E t \in Tasks : acquire_return(t)

Spec == Init /\ [][Next]_vars

\* The governor with clones, drops and cancelled callers
NextHandles ==
    \/ ReplenisherStart
    \/ Tick
    \/ \E t \in Tasks : acquire(t)
    \/ \E t \in Tasks : acquire_return(t)
    \/ \E h \in 1..MaxHandles : clone_handle(h)
    \/ \E h \in 1..MaxHandles : drop_handle(h)
    \/ \E t \in Tasks : cancel(t)

SpecHandles == Init /\ [][NextHandles]_vars

FairHandles ==
    /\ Init
    /\ [][NextHandles]_vars
    /\ WF_vars(ReplenisherStart)
    /\ WF_vars(Tick)
    /\ \A t \in Tasks : WF_vars(acquire_return(t))

\* The runtime keeps scheduling the spawned replenisher and every task that
\* is ready to run; a suspended acquire() is resumed by the semaphore.
FairSpec ==
    /\ Init
    /\ [][Next]_vars
    /\ WF_vars(ReplenisherStart)
    /\ WF_vars(Tick)
    /\ \A t \in Tasks : WF_vars(acquire_return(t))

----------------------------------------------------------------------------
(* Claims about the governor *)

TotalCompleted == SumTo(completedAt, MaxTicks)

\* C2: in any window of length period (rate refill intervals) at most rate
\* acquire() calls complete.
C2_WindowAdmissionBound ==
    \A k \in 0..MaxTicks :
        SumRange(completedAt, k, Min(k + rate - 1, MaxTicks)) <= rate

\* C3: the number of permits that can be claimed at once stays within
\* 0..capacity.
C3_PermitsWithinCapacity == permits >= 0 /\ permits <= rate

\* C4: every completed acquire() has consumed one token and none was put
\* back by a caller: with no call in progress, the tokens left are the
\* initial ones plus the replenished ones minus one per completed call.
C4_AcquireConsumesOneToken ==
    (\A t \in Tasks : pc[t] # "holding")
        => permits + TotalCompleted = rate + ticks

\* C5: before the first replenisher tick no more than capacity acquire()
\* calls complete: the (N+1)th has to wait for a tick.
C5_BurstThenWaitForTick == (ticks = 0) => completedAt[0] <= rate

\* C6: on a governor of capacity N > 0 none of the first N acquire() calls
\* is ever suspended, whatever the interleaving and the ticks.
C6_FirstNImmediate ==
    (rate > 0 /\ ncalls <= rate) => \A t \in Tasks : pc[t] # "waiting"

\* N calls have completed in a burst before any tick.
C6_Witness ==
    rate >= 2 /\ ticks = 0 /\ ncalls = rate /\ completedAt[0] = rate

\* C7: with capacity > 0, every task that has called acquire() eventually
\* completes it.
C7_NoStarvation ==
    \A t \in Tasks : (rate > 0 /\ pc[t] # "idle") ~> (pc[t] = "idle")

\* Two callers are suspended in acquire() at once.
C7_Witness == rate > 0 /\ Len(waiters) >= 2

----------------------------------------------------------------------------
(* format_cik on every argument string within the bounds *)

InitCik ==
    /\ GovIdle
    /\ CliIdle
    /\ FnIdle
    /\ cikInput = <<>>
    /\ cikOutput = [ok |-> FALSE, value |-> <<>>, err |-> ""]
    /\ cikValid = FALSE
    /\ cikPhase = "typing"

NextCik ==
    \/ \E c \in CikAlphabet : cik_type(c)
    \/ cik_apply

SpecCik == InitCik /\ [][NextCik]_vars

\* What the rule asks for, computed on the argument directly.
DigitsOf(s) == SelectSeq(s, LAMBDA c : c \in {"0", "1", "2", "3", "4", "5", "6", "7", "8", "9"})

Zeros(n) == [i \in 1..n |-> "0"]

\* C10: format_cik removes the characters that are not digits, fails when
\* no digit or more than 10 digits remain, and otherwise returns the
\* remaining digits left-padded with '0' to length 10; is_valid_cik is true
\* exactly when format_cik succeeds.
C10_FormatCik ==
    cikPhase = "formatted" =>
        LET ds == DigitsOf(cikInput) IN
        /\ cikOutput.ok = (Len(ds) >= 1 /\ Len(ds) <= 10)
        /\ cikOutput.ok =>
             /\ Len(cikOutput.value) = 10
             /\ cikOutput.value = Zeros(10 - Len(ds)) \o ds
        /\ cikValid = cikOutput.ok

\* An argument with a character that is not a digit, a leading zero and
\* fewer than 10 digits has been formatted.
C10_Witness ==
    /\ cikPhase = "formatted"
    /\ cikInput = <<"0", "1", "0", "-">>
    /\ cikOutput.ok
    /\ cikOutput.value = <<"0", "0", "0", "0", "0", "0", "0", "0", "1", "0">>

----------------------------------------------------------------------------
(* The client on its own: one endpoint call after another *)

InitClient == GovIdle /\ CliInit /\ CikIdle /\ FnIdle

NextClient ==
    \/ \E e \in Endpoints, c \in CikSamples : call_endpoint(e, c)
    \/ \E w \in WireOutcomes : transport_send(w)
    \/ classify_json
    \/ classify_bytes
    \/ \E ar \in BulkArchives, fault \in FsFaults : persist_and_extract(ar, fault)
    \/ call_return

SpecClient == InitClient /\ [][NextClient]_vars

Sends == Count(callTrace, "send")

\* C1: every transport send of a call comes after an acquire() on the
\* client's governor completed on behalf of that call.
C1_AcquireBeforeSend ==
    \A i \in 1..Len(callTrace) :
        callTrace[i] = "send" => \E j \in 1..(i - 1) : callTrace[j] = "acquire"

\* The request of the call got no usable answer: the transport failed, the
\* status is not a success, or the body of a JSON endpoint does not decode.
RequestFailed ==
    \/ response.tag = "Err"
    \/ response.tag = "Ok" /\ ~(response.status \in 200..299)
    \/ response.tag = "Ok" /\ call.endpoint \in JsonEndpoints /\ response.body = "bad"

\* C8: a call performs at most one transport send, and a call whose send
\* or classification failed ends with an error value.
C8_NoRetry ==
    /\ Sends <= 1
    /\ (cpc \in {"done", "downloaded"} /\ Sends = 1 /\ RequestFailed)
          => (cpc = "done" /\ result.tag = "Err")

\* A call whose only send failed in the network has ended with that error.
C8_Witness ==
    /\ cpc = "done"
    /\ Sends = 1
    /\ response.tag = "Err"
    /\ result = Err("NetworkError")

Malformed(c) ==
    LET n == Cardinality({i \in 1..Len(c) :
                 c[i] \in {"0", "1", "2", "3", "4", "5", "6", "7", "8", "9"}})
    IN n = 0 \/ n > 10

\* C9: a cik-keyed endpoint called with a malformed identifier returns an
\* error and performs no transport send.
C9_MalformedCikNoSend ==
    (call.endpoint \in CikKeyed /\ Malformed(call.cik))
        => (Sends = 0 /\ cpc = "done" /\ result.tag = "Err")

\* get_company_facts has been called with 11 digits.
C9_Witness ==
    /\ call.endpoint = "get_company_facts"
    /\ Len(call.cik) = 11
    /\ Malformed(call.cik)
    /\ cpc = "done"

----------------------------------------------------------------------------
(* The response interpreter of the JSON endpoints *)

JsonCallDone == cpc = "done" /\ call.endpoint \in JsonEndpoints /\ Sends = 1

\* A response with status 429 came back from the server: the built-in
\* transports look at the status before they read the body.
Received429 ==
    /\ wire.status = 429
    /\ \/ wire.net = "ok"
       \/ wire.net = "body_error" /\ client.transport \in {"reqwest", "worker"}

IsUnsignedNumeral(v) == v # <<>> /\ DigitsOf(v) = v

\* The retry_after a 429 response with Retry-After header h is to carry
ExpectedRetryAfter(h) ==
    IF h.present /\ IsUnsignedNumeral(h.value)
    THEN [some |-> TRUE, value |-> StripLeadingZeros(h.value)]
    ELSE [some |-> FALSE, value |-> <<>>]

\* C11: on a JSON endpoint, a response with status 429 always ends the call
\* in RateLimitExceeded, never in ApiError and never in a decoded value; its
\* retry_after is Some(n) when the Retry-After header is an unsigned integer
\* n, and None when the header is missing or is no unsigned integer.
C11_RateLimited429 ==
    (JsonCallDone /\ Received429) =>
        /\ result.tag = "Err"
        /\ result.kind = "RateLimitExceeded"
        /\ result.retry_after = ExpectedRetryAfter(wire.retry_after)

C11_Witness ==
    /\ JsonCallDone
    /\ Received429
    /\ client.transport = "custom"
    /\ wire.retry_after.present
    /\ result.kind = "RateLimitExceeded"
    /\ result.retry_after = [some |-> TRUE, value |-> <<"3", "0">>]

\* The transport handed a response to EdgarClient::get
Answered == response.tag = "Ok"

\* C12: on a JSON endpoint, a response whose status is outside 200..=299
\* and is not 429 (1xx and 3xx included) ends the call in ApiError carrying
\* exactly that status, and the body is never decoded.
C12_NonSuccessIsApiError ==
    (JsonCallDone /\ Answered /\ response.status \notin 200..299
        /\ response.status # 429) =>
        /\ result = api(response.status)
        /\ result.status = wire.status
        /\ Count(callTrace, "json") = 0

C12_Witness ==
    /\ JsonCallDone
    /\ Answered
    /\ response.status = 100
    /\ response.body = "good"
    /\ result = api(100)

\* C13: on a JSON endpoint, a response with status in 200..=299 ends the
\* call either in Ok with the transport's status and the decoded body, or
\* in ParseError when the body does not decode; there is no other outcome.
C13_SuccessDecodesOrParseError ==
    (JsonCallDone /\ Answered /\ response.status \in 200..299) =>
        /\ Count(callTrace, "json") = 1
        /\ \/ /\ response.body = "good"
              /\ result.tag = "Ok"
              /\ result.status = wire.status
              /\ result.data = "decoded"
           \/ /\ response.body = "bad"
              /\ result.tag = "Err"
              /\ result.kind = "ParseError"

C13_Witness ==
    /\ JsonCallDone
    /\ Answered
    /\ response.status = 299
    /\ response.body = "bad"
    /\ result.kind = "ParseError"
----------------------------------------------------------------------------
(* The error taxonomy (error.rs) *)

MaxErrStatus == 600

ErrorKinds ==
    {"NetworkError", "ParseError", "RequestError", "ApiError",
     "RateLimitExceeded", "InvalidCik", "IoError", "ZipError", "HttpError"}

\* Values of EdgarApiError: every variant, ApiError with every status up to
\* MaxErrStatus and with the largest u16, RateLimitExceeded with and
\* without a retry_after.
ErrorValues ==
    {Err(k) : k \in ErrorKinds \ {"ApiError"}}
    \cup {api(st) : st \in 0..MaxErrStatus}
    \cup {api(65535)}
    \cup {rate_limit([some |-> TRUE, value |-> <<"3", "0">>])}

\* EdgarApiError::is_transient
TransientFrom500(e) ==
    CASE e.kind = "NetworkError" -> TRUE
      [] e.kind = "ApiError" -> e.status = 503 \/ e.status > 500
      [] e.kind = "RateLimitExceeded" -> TRUE
      [] OTHER -> FALSE
is_transient(e) ==
    CASE e.kind = "NetworkError" -> TRUE
      [] e.kind = "ApiError" -> e.status = 429 \/ e.status = 503 \/ e.status >= 500
      [] e.kind = "RateLimitExceeded" -> TRUE
      [] OTHER -> FALSE

InitErr ==
    /\ GovIdle
    /\ CliIdle
    /\ CikIdle
    /\ fnArg \in ErrorValues
    /\ fnOut = "none"
    /\ fnPhase = "given"

is_transient_apply ==
    /\ fnPhase = "given"
    /\ fnOut' = is_transient(fnArg)
    /\ fnPhase' = "applied"
    /\ UNCHANGED fnArg
    /\ UNCHANGED <<govVars, cliVars, cikVars>>

NextErr == is_transient_apply

SpecErr == InitErr /\ [][NextErr]_vars

\* C14: is_transient() is true exactly for NetworkError, RateLimitExceeded
\* and ApiError whose status is 429, 503 or at least 500; it is false for
\* every other ApiError status below 500 and for ParseError, RequestError,
\* InvalidCik, IoError and ZipError.
C14_IsTransient ==
    fnPhase = "applied" =>
        /\ fnArg.kind \in {"NetworkError", "RateLimitExceeded"} => fnOut = TRUE
        /\ fnArg.kind = "ApiError" =>
             (fnOut = TRUE <=> (fnArg.status \in {429, 503} \/ fnArg.status >= 500))
        /\ fnArg.kind \in {"ParseError", "RequestError", "InvalidCik", "IoError",
                           "ZipError"} => fnOut = FALSE
        /\ fnOut = TRUE =>
             fnArg.kind \in {"NetworkError", "RateLimitExceeded", "ApiError"}

C14_Witness ==
    /\ fnPhase = "applied"
    /\ fnArg = api(429)
    /\ fnOut = TRUE
----------------------------------------------------------------------------
(* Reporting periods (types.rs) *)

\* The decimal digits of a number, as `{}` writes an unsigned integer
RECURSIVE Decimal(_)
Decimal(n) ==
    IF n < 10 THEN <<Digits[n + 1]>>
    ELSE Append(Decimal(n \div 10), Digits[(n % 10) + 1])

\* The number a numeral of a few digits denotes
RECURSIVE NumeralValue(_)
NumeralValue(ds) ==
    IF ds = <<>> THEN 0
    ELSE 10 * NumeralValue(SubSeq(ds, 1, Len(ds) - 1)) + DigitValue(ds[Len(ds)])

\* u16::MAX = 65535 and u8::MAX = 255
U16Max == <<"6", "5", "5", "3", "5">>
U8Max == <<"2", "5", "5">>

\* str::parse::<u16>() and str::parse::<u8>(): an optional '+', then one
\* or more ASCII digits denoting a number that fits the type.
parse_unsigned(s, max) ==
    LET ds == IF s # <<>> /\ Head(s) = "+" THEN Tail(s) ELSE s IN
    IF ds = <<>> \/ \E i \in 1..Len(ds) : ~is_ascii_digit(ds[i])
    THEN [ok |-> FALSE, value |-> 0]
    ELSE IF ~NumeralLeq(StripLeadingZeros(ds), max)
    THEN [ok |-> FALSE, value |-> 0]
    ELSE [ok |-> TRUE, value |-> NumeralValue(StripLeadingZeros(ds))]

parse_u16(s) == parse_unsigned(s, U16Max)
parse_u8(s) == parse_unsigned(s, U8Max)

\* str::starts_with, str::ends_with and str::find of one character
\* (find gives the 1-based position of the first occurrence, 0 for none)
starts_with(s, prefix) ==
    Len(s) >= Len(prefix) /\ SubSeq(s, 1, Len(prefix)) = prefix

ends_with(s, c) == s # <<>> /\ s[Len(s)] = c

find(s, c) ==
    IF \E i \in 1..Len(s) : s[i] = c
    THEN CHOOSE i \in 1..Len(s) : s[i] = c /\ \A j \in 1..(i - 1) : s[j] # c
    ELSE 0

\* Values of Period and of Option<Period>
Annual(y) == [kind |-> "Annual", year |-> y, quarter |-> 0]
Quarterly(y, q) == [kind |-> "Quarterly", year |-> y, quarter |-> q]
Instantaneous(y, q) == [kind |-> "Instantaneous", year |-> y, quarter |-> q]

Some(p) == [some |-> TRUE, p |-> p]
None == [some |-> FALSE, p |-> Annual(0)]

\* impl fmt::Display for Period, Period::as_str
as_str(p) ==
    CASE p.kind = "Annual" -> <<"C", "Y">> \o Decimal(p.year)
      [] p.kind = "Quarterly" ->
           <<"C", "Y">> \o Decimal(p.year) \o <<"Q">> \o Decimal(p.quarter)
      [] OTHER ->
           <<"C", "Y">> \o Decimal(p.year) \o <<"Q">> \o Decimal(p.quarter) \o <<"I">>

\* quarter >= 1 && quarter <= 4
AtMostFour(q) == q <= 4
quarter_in_range(q) == q >= 1 /\ q <= 4

\* Period::from_str
from_str(s) ==
    IF ~starts_with(s, <<"C", "Y">>) THEN None
    ELSE
      LET t == SubSeq(s, 3, Len(s))
          i == find(t, "Q")
      IN
      IF i > 0
      THEN LET year == parse_u16(SubSeq(t, 1, i - 1))
               remainder == SubSeq(t, i + 1, Len(t))
           IN
           IF ~year.ok THEN None
           ELSE IF ends_with(remainder, "I")
           THEN LET quarter == parse_u8(SubSeq(remainder, 1, Len(remainder) - 1)) IN
                IF ~quarter.ok THEN None
                ELSE IF quarter_in_range(quarter.value)
                THEN Some(Instantaneous(year.value, quarter.value))
                ELSE None
           ELSE LET quarter == parse_u8(remainder) IN
                IF ~quarter.ok THEN None
                ELSE IF quarter_in_range(quarter.value)
                THEN Some(Quarterly(year.value, quarter.value))
                ELSE None
      ELSE LET year == parse_u16(t) IN
           IF ~year.ok THEN None ELSE Some(Annual(year.value))

\* The years and quarters of the periods tried: the ends of the 16-bit
\* range, numbers of every length in between, and the four quarters.
PeriodYears == {0, 1, 9, 10, 999, 2019, 65535}

Periods ==
    {Annual(y) : y \in PeriodYears}
    \cup {Quarterly(y, q) : y \in PeriodYears, q \in 1..4}
    \cup {Instantaneous(y, q) : y \in PeriodYears, q \in 1..4}

\* The strings tried: a prefix, a year field, and either nothing more or
\* 'Q', a quarter field and an optional 'I'.
PrefixTexts == { <<"C", "Y">>, <<"c", "y">>, <<>> }

YearTexts ==
    { <<"0">>, <<"2", "0", "1", "9">>, <<"6", "5", "5", "3", "5">>,
      <<"6", "5", "5", "3", "6">>, <<"+", "7">>, <<"x">>, <<>> }

QuarterTexts ==
    { <<"0">>, <<"1">>, <<"4">>, <<"5">>, <<"9">>, <<"0", "1">>, <<"0", "5">>,
      <<"2", "5", "5">>, <<"2", "5", "6">>, <<"+", "1">>, <<"x">>, <<>>,
      <<"1", "Q", "2">> }

PeriodTexts ==
    [prefix : PrefixTexts, year : YearTexts, hasQ : {FALSE},
     quarter : {<<>>}, suffix : {<<>>}]
    \cup [prefix : PrefixTexts, year : YearTexts, hasQ : {TRUE},
          quarter : QuarterTexts, suffix : {<<>>, <<"I">>}]

TextOf(x) ==
    x.prefix \o x.year \o
    (IF x.hasQ THEN <<"Q">> \o x.quarter \o x.suffix ELSE <<>>)

NoText ==
    [prefix |-> <<>>, year |-> <<>>, hasQ |-> FALSE, quarter |-> <<>>,
     suffix |-> <<>>]

InitPeriod ==
    /\ GovIdle
    /\ CliIdle
    /\ CikIdle
    /\ \/ \E p \in Periods : fnArg = [kind |-> "period", p |-> p, text |-> NoText]
       \/ \E x \in PeriodTexts : fnArg = [kind |-> "text", p |-> Annual(0), text |-> x]
    /\ fnOut = [s |-> <<>>, parsed |-> None]
    /\ fnPhase = "given"

\* Period::from_str(&p.as_str())
period_round_trip ==
    /\ fnPhase = "given"
    /\ fnArg.kind = "period"
    /\ fnOut' = [s |-> as_str(fnArg.p), parsed |-> from_str(as_str(fnArg.p))]
    /\ fnPhase' = "applied"
    /\ UNCHANGED fnArg
    /\ UNCHANGED <<govVars, cliVars, cikVars>>

\* Period::from_str(s)
period_from_str ==
    /\ fnPhase = "given"
    /\ fnArg.kind = "text"
    /\ fnOut' = [s |-> TextOf(fnArg.text), parsed |-> from_str(TextOf(fnArg.text))]
    /\ fnPhase' = "applied"
    /\ UNCHANGED fnArg
    /\ UNCHANGED <<govVars, cliVars, cikVars>>

NextPeriod == period_round_trip \/ period_from_str

SpecPeriod == InitPeriod /\ [][NextPeriod]_vars

\* The quarter field of a text is a decimal numeral outside 1..=4
QuarterOutOfRange(x) ==
    /\ x.hasQ
    /\ x.quarter # <<>>
    /\ DigitsOf(x.quarter) = x.quarter
    /\ \/ Len(StripLeadingZeros(x.quarter)) > 1
       \/ StripLeadingZeros(x.quarter) \notin {<<"1">>, <<"2">>, <<"3">>, <<"4">>}

\* C15: from_str(as_str(p)) is Some(p) for every Annual(y), Quarterly(y, q)
\* and Instantaneous(y, q) with q in 1..=4 and y any 16-bit year, and
\* from_str is None for every string whose quarter field is outside 1..=4.
C15_PeriodRoundTrip ==
    fnPhase = "applied" =>
        /\ fnArg.kind = "period" => fnOut.parsed = Some(fnArg.p)
        /\ (fnArg.kind = "text" /\ QuarterOutOfRange(fnArg.text)) =>
             fnOut.parsed = None

C15_Witness ==
    /\ fnPhase = "applied"
    /\ fnArg.kind = "period"
    /\ fnArg.p = Instantaneous(65535, 4)
    /\ fnOut.s = <<"C", "Y", "6", "5", "5", "3", "5", "Q", "4", "I">>
    /\ fnOut.parsed = Some(Instantaneous(65535, 4))

C15_WitnessOutOfRange ==
    /\ fnPhase = "applied"
    /\ fnArg.kind = "text"
    /\ fnOut.s = <<"C", "Y", "2", "0", "1", "9", "Q", "5">>
    /\ fnOut.parsed = None
----------------------------------------------------------------------------
(* Bulk archive downloads *)

BulkCallDone == cpc = "done" /\ call.endpoint \in BulkEndpoints /\ Sends = 1

\* The files an archive holds: one per file entry, at the entry's relative
\* path, with the entry's content; and the directories they need.
FileEntries(ar) == {ar[i] : i \in {j \in 1..Len(ar) : ~ar[j].dir}}

ExpectedFiles(ar) ==
    {[path |-> Resolve(e.name, <<>>).path, content |-> e.content] : e \in FileEntries(ar)}

PlainArchive(ar) ==
    \A i \in 1..Len(ar) : ~ar[i].absolute /\ ~Climbs(ar[i].name, 0)

\* C16: when the transport returns a 2xx response whose body is a
\* well-formed archive (and the file system does not fail),
\* download_bulk_submissions / download_bulk_company_facts succeeds and the
\* destination directory then holds one file per file entry of the archive,
\* at the entry's relative path below directories created for it, with
\* exactly the entry's content.
C16_BulkDownloadExtracts ==
    (/\ BulkCallDone
     /\ Answered
     /\ response.status \in 200..299
     /\ response.body = "good"
     /\ disk.fault = NoFault
     /\ PlainArchive(disk.held.entries)) =>
        /\ result.tag = "Ok"
        /\ disk.files = ExpectedFiles(disk.held.entries)
        /\ \A f \in disk.files : parent(f.path) \in disk.dirs

\* C17: when a bulk archive download returns, on every exit path (success,
\* failed write, failed extraction), the temporary file that held the
\* downloaded archive does not exist.
C17_TempFileGone ==
    BulkCallDone => disk.temp # "present"

C17_Witness ==
    /\ BulkCallDone
    /\ Count(callTrace, "write_temp_file") = 1
    /\ Count(callTrace, "extract_zip") = 1
    /\ disk.held.wellformed
    /\ disk.held.entries # <<>>
    /\ disk.temp = "deleted"
----------------------------------------------------------------------------
(* Archive extraction on its own *)

\* The arguments of extract_zip (a path to a file that holds the bytes, or
\* to no file) and of extract_zip_from_memory (the bytes), and the
\* destination directory, which exists already or does not.
InitZip ==
    /\ GovIdle
    /\ CikIdle
    /\ client = [transport |-> "reqwest", user_agent |-> "agent-a"]
    /\ cpc = "off"
    /\ call = NoCall
    /\ request = {}
    /\ wire = NoResponse("none")
    /\ response = NoResponseYet
    /\ result = NoResult
    /\ callTrace = <<>>
    /\ nrequests = 0
    /\ \E source \in {"file", "missing_file", "memory"},
          bytes \in {ZipBytes(ar) : ar \in Archives} \cup {NotAnArchive},
          dirs \in {{}, {<<>>}} :
          /\ source = "missing_file" => bytes = NotAnArchive
          /\ fnArg = [source |-> source, bytes |-> bytes]
          /\ disk = [EmptyDisk EXCEPT
                        !.temp = IF source = "file" THEN "present" ELSE "none",
                        !.held = IF source = "file" THEN bytes ELSE NotAnArchive,
                        !.dirs = dirs]
    /\ fnOut = [result |-> NoResult, reached |-> 0]
    /\ fnPhase = "given"

ExtractFaults == {f \in FsFaults : f.step \in {"none", "open", "extract"}}

\* extract_zip(zip_path, output_dir)
extract_zip_apply(fault) ==
    /\ fnPhase = "given"
    /\ fnArg.source \in {"file", "missing_file"}
    /\ LET x == extract_zip(disk, fault) IN
       /\ fnOut' = [result |-> x.result, reached |-> x.reached]
       /\ disk' = [x.disk EXCEPT !.fault = fault]
    /\ fnPhase' = "applied"
    /\ UNCHANGED fnArg
    /\ UNCHANGED <<client, cpc, call, request, wire, response, result, callTrace,
                   nrequests>>
    /\ UNCHANGED <<govVars, cikVars>>

\* extract_zip_from_memory(zip_data, output_dir)
extract_zip_from_memory_apply(fault) ==
    /\ fnPhase = "given"
    /\ fnArg.source = "memory"
    /\ fault.step # "open"
    /\ LET x == extract_zip_from_memory(fnArg.bytes, disk, fault) IN
       /\ fnOut' = [result |-> x.result, reached |-> x.reached]
       /\ disk' = [x.disk EXCEPT !.fault = fault]
    /\ fnPhase' = "applied"
    /\ UNCHANGED fnArg
    /\ UNCHANGED <<client, cpc, call, request, wire, response, result, callTrace,
                   nrequests>>
    /\ UNCHANGED <<govVars, cikVars>>

\* write_temp_file(bytes)
write_temp_file_apply(fault) ==
    /\ fnPhase = "given"
    /\ fnArg.source = "memory"
    /\ fault.step \in {"none", "tempfile", "create", "write"}
    /\ LET w == write_temp_file(fnArg.bytes, disk, fault) IN
       /\ fnOut' = [result |-> w.result, reached |-> 0]
       /\ disk' = [w.disk EXCEPT !.fault = fault]
    /\ fnPhase' = "written"
    /\ UNCHANGED fnArg
    /\ UNCHANGED <<client, cpc, call, request, wire, response, result, callTrace,
                   nrequests>>
    /\ UNCHANGED <<govVars, cikVars>>

NextZip ==
    \/ \E fault \in FsFaults : write_temp_file_apply(fault)
    \/ \E fault \in ExtractFaults : extract_zip_apply(fault)
    \/ \E fault \in ExtractFaults : extract_zip_from_memory_apply(fault)

SpecZip == InitZip /\ [][NextZip]_vars

\* The name of entry e leads outside the destination directory
LeadsOutside(e) == e.absolute \/ ~Resolve(e.name, <<>>).inside

FirstOutside(ar) ==
    IF \E i \in 1..Len(ar) : LeadsOutside(ar[i])
    THEN CHOOSE i \in 1..Len(ar) :
            LeadsOutside(ar[i]) /\ \A j \in 1..(i - 1) : ~LeadsOutside(ar[j])
    ELSE 0

\* C18: for every archive, extract_zip and extract_zip_from_memory never
\* create or write a file or directory outside the destination directory:
\* an entry whose name would resolve outside it (../evil.txt, an absolute
\* path) makes the extraction fail with ZipError and is not written.
C18_NoWriteOutsideDestination ==
    /\ disk.outside = {}
    /\ \A f \in disk.files : f.path # <<>> /\ \A i \in 1..Len(f.path) : f.path[i] \notin {"..", "."}
    /\ (fnPhase = "applied" /\ fnOut.reached >= 1
          /\ LeadsOutside(fnArg.bytes.entries[fnOut.reached])) =>
          fnOut.result = Err("ZipError")
    /\ (fnPhase = "applied" /\ fnArg.bytes.wellformed /\ disk.fault = NoFault
          /\ FirstOutside(fnArg.bytes.entries) > 0) =>
          /\ fnOut.result = Err("ZipError")
          /\ fnOut.reached = FirstOutside(fnArg.bytes.entries)

C18_Witness ==
    /\ fnPhase = "applied"
    /\ fnArg.source = "memory"
    /\ fnArg.bytes.entries = <<Entry(<<"a.txt">>, FALSE, FALSE, "A"),
                               Entry(<<"..", "evil.txt">>, FALSE, FALSE, "E")>>
    /\ fnOut.result = Err("ZipError")
    /\ disk.files = {[path |-> <<"a.txt">>, content |-> "A"]}
    /\ disk.outside = {}
----------------------------------------------------------------------------
(* Company tickers (models/company_tickers.rs) *)

MaxRows == 2

\* Values of serde_json::Value found in a row
Cell(t, v) == [t |-> t, v |-> v]

\* Value::as_u64 and Value::as_str, as Options
value_as_u64(c) == [some |-> c.t = "uint", v |-> IF c.t = "uint" THEN c.v ELSE ""]
value_as_str(c) == [some |-> c.t = "string", v |-> IF c.t = "string" THEN c.v ELSE ""]

\* The rows tried: three that parse (a string, a null and a number as 4th
\* column), rows of 0, 3 and 5 columns, and rows of 4 columns with a cik,
\* name or ticker of the wrong type.
RowSamples ==
    { <<Cell("uint", "320193"), Cell("string", "Apple"), Cell("string", "AAPL"),
        Cell("string", "Nasdaq")>>,
      <<Cell("uint", "789019"), Cell("string", "Microsoft"), Cell("string", "MSFT"),
        Cell("null", "")>>,
      <<Cell("uint", "0"), Cell("string", ""), Cell("string", "T"),
        Cell("uint", "5")>>,
      <<>>,
      <<Cell("uint", "320193"), Cell("string", "Apple"), Cell("string", "AAPL")>>,
      <<Cell("uint", "320193"), Cell("string", "Apple"), Cell("string", "AAPL"),
        Cell("string", "Nasdaq"), Cell("string", "extra")>>,
      <<Cell("string", "320193"), Cell("string", "Apple"), Cell("string", "AAPL"),
        Cell("string", "Nasdaq")>>,
      <<Cell("negative", "-1"), Cell("string", "Apple"), Cell("string", "AAPL"),
        Cell("string", "Nasdaq")>>,
      <<Cell("uint", "320193"), Cell("null", ""), Cell("string", "AAPL"),
        Cell("string", "Nasdaq")>>,
      <<Cell("uint", "320193"), Cell("string", "Apple"), Cell("uint", "7"),
        Cell("string", "Nasdaq")>> }

TickerData == UNION {[1..n -> RowSamples] : n \in 0..MaxRows}

\* row.len() != 4
AtLeastFour(n) == n >= 4
row_length_ok(n) == n = 4

\* The closure of CompanyTickers::entries for one row
row_entry(row) ==
    IF ~row_length_ok(Len(row)) THEN [ok |-> FALSE, err |-> "Invalid row length"]
    ELSE IF ~value_as_u64(row[1]).some THEN [ok |-> FALSE, err |-> "Invalid CIK"]
    ELSE IF ~value_as_str(row[2]).some THEN [ok |-> FALSE, err |-> "Invalid name"]
    ELSE IF ~value_as_str(row[3]).some THEN [ok |-> FALSE, err |-> "Invalid ticker"]
    ELSE [ok |-> TRUE, err |-> "",
          entry |-> [cik |-> value_as_u64(row[1]).v,
                     name |-> value_as_str(row[2]).v,
                     ticker |-> value_as_str(row[3]).v,
                     exchange |-> IF value_as_str(row[4]).some
                                  THEN value_as_str(row[4]).v ELSE ""]]

\* CompanyTickers::entries: .iter().map(..).collect::<Result<Vec<_>, _>>()
RECURSIVE collect(_, _)
collect(data, acc) ==
    IF data = <<>> THEN [ok |-> TRUE, entries |-> acc, err |-> ""]
    ELSE IF ~row_entry(Head(data)).ok
    THEN [ok |-> FALSE, entries |-> <<>>, err |-> row_entry(Head(data)).err]
    ELSE collect(Tail(data), Append(acc, row_entry(Head(data)).entry))

entries(data) == collect(data, <<>>)

InitTickers ==
    /\ GovIdle
    /\ CliIdle
    /\ CikIdle
    /\ fnArg \in TickerData
    /\ fnOut = [ok |-> FALSE, entries |-> <<>>, err |-> "none"]
    /\ fnPhase = "given"

entries_apply ==
    /\ fnPhase = "given"
    /\ fnOut' = entries(fnArg)
    /\ fnPhase' = "applied"
    /\ UNCHANGED fnArg
    /\ UNCHANGED <<govVars, cliVars, cikVars>>

NextTickers == entries_apply

SpecTickers == InitTickers /\ [][NextTickers]_vars

\* A row of exactly 4 columns with an unsigned-integer cik and string name
\* and ticker
GoodRow(row) ==
    /\ Len(row) = 4
    /\ row[1].t = "uint"
    /\ row[2].t = "string"
    /\ row[3].t = "string"

BadRows(data) == {i \in 1..Len(data) : ~GoodRow(data[i])}

FirstBadRow(data) == CHOOSE i \in BadRows(data) : \A j \in BadRows(data) : i <= j

\* entries() is Ok exactly for good rows, and then gives one entry per row
\* in row order, the exchange being the 4th column when it is a string and
\* empty when it is null.
EntriesOfGoodRows ==
    /\ fnOut.ok <=> BadRows(fnArg) = {}
    /\ fnOut.ok =>
         /\ Len(fnOut.entries) = Len(fnArg)
         /\ \A i \in 1..Len(fnArg) :
              /\ fnOut.entries[i].cik = fnArg[i][1].v
              /\ fnOut.entries[i].name = fnArg[i][2].v
              /\ fnOut.entries[i].ticker = fnArg[i][3].v
              /\ fnArg[i][4].t = "string" => fnOut.entries[i].exchange = fnArg[i][4].v
              /\ fnArg[i][4].t = "null" => fnOut.entries[i].exchange = ""

\* C19 as stated: entries() is Ok exactly when every row has 4 columns with
\* an unsigned-integer cik and string name and ticker, with one entry per
\* row in order; and a row with fewer or more than 4 columns makes the call
\* fail with the "Invalid row length" error and no entries.
C19_EntriesAsStated ==
    fnPhase = "applied" =>
        /\ EntriesOfGoodRows
        /\ (\E i \in 1..Len(fnArg) : Len(fnArg[i]) # 4) =>
             /\ ~fnOut.ok
             /\ fnOut.entries = <<>>
             /\ fnOut.err = "Invalid row length"

\* C19 as amended: the same, except that the call fails with the error of
\* its first invalid row, which is "Invalid row length" when that row has
\* fewer or more than 4 columns.
C19_EntriesFirstErrorWins ==
    fnPhase = "applied" =>
        /\ EntriesOfGoodRows
        /\ (\E i \in 1..Len(fnArg) : Len(fnArg[i]) # 4) =>
             /\ ~fnOut.ok
             /\ fnOut.entries = <<>>
             /\ Len(fnArg[FirstBadRow(fnArg)]) # 4 => fnOut.err = "Invalid row length"

C19_Witness ==
    /\ fnPhase = "applied"
    /\ Len(fnArg) = 2
    /\ GoodRow(fnArg[1])
    /\ Len(fnArg[2]) = 3
    /\ ~fnOut.ok
    /\ fnOut.err = "Invalid row length"
----------------------------------------------------------------------------
(* URL building (config.rs) *)

\* "https://", which is also DEFAULT_BASE_URL
Https == <<"h", "t", "t", "p", "s", ":", "/", "/">>
DEFAULT_BASE_URL == Https

\* The base urls and urls tried: a url is a head followed by a tail.
BaseUrls ==
    { DEFAULT_BASE_URL,
      Https \o <<"p", ".", "x", "/">>,
      <<"h", "t", "t", "p", ":", "/", "/", "p", "/">>,
      <<>> }

UrlHeads ==
    { Https,
      <<"h", "t", "t", "p", ":", "/", "/">>,
      <<"h", "t", "t", "p", "s", ":", "/">>,
      <<"H", "T", "T", "P", "S", ":", "/", "/">>,
      <<"f", "t", "p", ":", "/", "/">>,
      <<>> }

UrlTails ==
    { <<>>,
      <<"a">>,
      <<"a", "/", "b">>,
      Https \o <<"a">>,
      <<"w", "w", "w", ".", "s", "e", "c", ".", "g", "o", "v", "/", "f">> }

\* &url[8..]
SchemeLen == 8

\* Config::build_url
SliceFromSeven(base_url, url) ==
    IF starts_with(url, Https)
    THEN base_url \o SubSeq(url, SchemeLen, Len(url))
    ELSE url
build_url(base_url, url) ==
    IF starts_with(url, Https)
    THEN base_url \o SubSeq(url, SchemeLen + 1, Len(url))
    ELSE url

InitUrl ==
    /\ GovIdle
    /\ CliIdle
    /\ CikIdle
    /\ \E b \in BaseUrls, h \in UrlHeads, t \in UrlTails :
          fnArg = [base_url |-> b, url |-> h \o t]
    /\ fnOut = <<>>
    /\ fnPhase = "given"

build_url_apply ==
    /\ fnPhase = "given"
    /\ fnOut' = build_url(fnArg.base_url, fnArg.url)
    /\ fnPhase' = "applied"
    /\ UNCHANGED fnArg
    /\ UNCHANGED <<govVars, cliVars, cikVars>>

NextUrl == build_url_apply

SpecUrl == InitUrl /\ [][NextUrl]_vars

\* url is "https://" followed by rest
HttpsThen(url, rest) ==
    /\ Len(url) = 8 + Len(rest)
    /\ \A i \in 1..8 : url[i] = Https[i]
    /\ \A i \in 1..Len(rest) : url[8 + i] = rest[i]

RestsOf(url) == {SubSeq(url, k, Len(url)) : k \in 1..(Len(url) + 1)}

\* C20: build_url(url) is base_url followed by url without its leading
\* "https://" when url starts with "https://", and url unchanged otherwise;
\* with the default base_url ("https://") it is the identity on every url.
C20_BuildUrl ==
    fnPhase = "applied" =>
        /\ \A rest \in RestsOf(fnArg.url) :
             HttpsThen(fnArg.url, rest) => fnOut = fnArg.base_url \o rest
        /\ (\A rest \in RestsOf(fnArg.url) : ~HttpsThen(fnArg.url, rest)) =>
             fnOut = fnArg.url
        /\ fnArg.base_url = DEFAULT_BASE_URL => fnOut = fnArg.url

C20_Witness ==
    /\ fnPhase = "applied"
    /\ fnArg.base_url = Https \o <<"p", ".", "x", "/">>
    /\ fnArg.url = Https \o <<"a", "/", "b">>
    /\ fnOut = Https \o <<"p", ".", "x", "/", "a", "/", "b">>
----------------------------------------------------------------------------
(* Request headers *)

UserAgentValues(headers) == {h[2] : h \in {x \in headers : x[1] = "User-Agent"}}

\* A request has been handed to the transport for the current call
RequestSent == Sends >= 1

HeadersCarryUserAgent ==
    RequestSent => UserAgentValues(request) = {client.user_agent}

\* C21: every transport send of a client, for every endpoint including both
\* bulk downloads, carries a User-Agent header whose value is the user-agent
\* string the client was constructed with, and the client's user agent
\* never changes after construction.
C21_UserAgentOnEverySend ==
    /\ []HeadersCarryUserAgent
    /\ [][client'.user_agent = client.user_agent]_vars

C21_Witness ==
    /\ RequestSent
    /\ call.endpoint = "download_bulk_company_facts"
    /\ nrequests = 1
    /\ client.user_agent = "agent-b"
    /\ request = {<<"User-Agent", "agent-b">>, <<"Accept", "application/zip">>}
----------------------------------------------------------------------------
(* Submission history (models/submission.rs) *)

MaxFiles == 2

\* Values of Recent: parallel vectors, of which accession_number, form and
\* filing_date decide how many entries there are.
Recent(acc, form, date) == [accession_number |-> acc, form |-> form, filing_date |-> date]

RecentSamples ==
    { Recent(<<>>, <<>>, <<>>),
      Recent(<<"a1">>, <<"10-K">>, <<"d1">>),
      Recent(<<"b1", "b2">>, <<"8-K", "10-Q">>, <<"d2", "d3">>),
      Recent(<<"c1", "c2">>, <<"8-K">>, <<"d4", "d5">>) }

\* SubmissionHistory::convert_recent_to_filing_entries
RECURSIVE convert_from(_, _)
convert_from(recent, i) ==
    IF i > Len(recent.accession_number) THEN <<>>
    ELSE IF i <= Len(recent.form) /\ i <= Len(recent.filing_date)
    THEN <<[accession_number |-> recent.accession_number[i],
            form |-> recent.form[i],
            filing_date |-> recent.filing_date[i]]>> \o convert_from(recent, i + 1)
    ELSE convert_from(recent, i + 1)

convert_recent_to_filing_entries(recent) == convert_from(recent, 1)

\* filings.files: None, or the names of the additional files
FileNames == {"f1.json", "f2.json"}

FileLists ==
    {[some |-> FALSE, names |-> <<>>]}
    \cup {[some |-> TRUE, names |-> ns] :
            ns \in UNION {[1..n -> FileNames] : n \in 0..MaxFiles}}

\* What api_client.get_submissions_file answers
FileAnswers ==
    {[tag |-> "Ok", kind |-> "none", data |-> r] : r \in RecentSamples}
    \cup {[tag |-> "Err", kind |-> k, data |-> Recent(<<>>, <<>>, <<>>)] :
            k \in {"NetworkError", "ApiError", "ParseError"}}

\* Where get_all_filings goes after a request that failed: `?` returns
SkipFailedFile(e) == "fetching"
after_file_error(e) == "returned"

InitFilings ==
    /\ GovIdle
    /\ CliIdle
    /\ CikIdle
    /\ fnArg \in [recent : RecentSamples, files : FileLists]
    /\ fnOut = [all_filings |-> <<>>, requests |-> <<>>, answers |-> <<>>,
                result |-> [tag |-> "none", kind |-> "none", value |-> <<>>]]
    /\ fnPhase = "given"

\* let mut all_filings = self.get_recent_filings();
get_all_filings ==
    /\ fnPhase = "given"
    /\ fnOut' = [fnOut EXCEPT
                    !.all_filings = convert_recent_to_filing_entries(fnArg.recent)]
    /\ fnPhase' = "fetching"
    /\ UNCHANGED fnArg
    /\ UNCHANGED <<govVars, cliVars, cikVars>>

\* One pass of the loop: request the next file, then extend the list or
\* return the error.
fetch_file(a) ==
    /\ fnPhase = "fetching"
    /\ Len(fnOut.requests) < Len(fnArg.files.names)
    /\ LET name == fnArg.files.names[Len(fnOut.requests) + 1] IN
       IF a.tag = "Err"
       THEN /\ fnOut' = [fnOut EXCEPT
                           !.requests = Append(@, name),
                           !.answers = Append(@, a),
                           !.result = IF after_file_error(a) = "returned"
                                      THEN [tag |-> "Err", kind |-> a.kind, value |-> <<>>]
                                      ELSE @]
            /\ fnPhase' = after_file_error(a)
       ELSE /\ fnOut' = [fnOut EXCEPT
                           !.requests = Append(@, name),
                           !.answers = Append(@, a),
                           !.all_filings = @ \o convert_recent_to_filing_entries(a.data)]
            /\ fnPhase' = "fetching"
    /\ UNCHANGED fnArg
    /\ UNCHANGED <<govVars, cliVars, cikVars>>

\* Ok(all_filings)
get_all_filings_return ==
    /\ fnPhase = "fetching"
    /\ Len(fnOut.requests) = Len(fnArg.files.names)
    /\ fnOut' = [fnOut EXCEPT
                    !.result = [tag |-> "Ok", kind |-> "none", value |-> fnOut.all_filings]]
    /\ fnPhase' = "returned"
    /\ UNCHANGED fnArg
    /\ UNCHANGED <<govVars, cliVars, cikVars>>

NextFilings ==
    \/ get_all_filings
    \/ \E a \in FileAnswers : fetch_file(a)
    \/ get_all_filings_return

SpecFilings == InitFilings /\ [][NextFilings]_vars

\* The entries of answers k..Len(answers), one file after the other
RECURSIVE EntriesOfAnswers(_, _)
EntriesOfAnswers(answers, k) ==
    IF k > Len(answers) THEN <<>>
    ELSE convert_recent_to_filing_entries(answers[k].data)
         \o EntriesOfAnswers(answers, k + 1)

\* C22: get_all_filings requests the files of filings.files one at a time
\* in listed order; when every request succeeds it returns the recent
\* entries followed by each file's entries in that order; when a request
\* fails it returns that error, issues no further request and returns no
\* partial list.
C22_AllFilingsAllOrNothing ==
    /\ Len(fnOut.requests) <= Len(fnArg.files.names)
    /\ fnOut.requests = SubSeq(fnArg.files.names, 1, Len(fnOut.requests))
    /\ \A i \in 1..(Len(fnOut.answers) - 1) : fnOut.answers[i].tag = "Ok"
    /\ (fnOut.answers # <<>> /\ fnOut.answers[Len(fnOut.answers)].tag = "Err") =>
          /\ fnPhase = "returned"
          /\ fnOut.result.tag = "Err"
          /\ fnOut.result.kind = fnOut.answers[Len(fnOut.answers)].kind
          /\ fnOut.result.value = <<>>
    /\ (fnPhase = "returned" /\ fnOut.result.tag = "Ok") =>
          /\ fnOut.requests = fnArg.files.names
          /\ fnOut.result.value =
               convert_recent_to_filing_entries(fnArg.recent)
               \o EntriesOfAnswers(fnOut.answers, 1)

C22_Witness ==
    /\ fnPhase = "returned"
    /\ fnArg.files.names = <<"f2.json", "f1.json">>
    /\ fnOut.requests = <<"f2.json">>
    /\ fnOut.result.tag = "Err"
    /\ fnOut.result.kind = "ApiError"

C22_WitnessAll ==
    /\ fnPhase = "returned"
    /\ fnOut.requests = <<"f1.json", "f2.json">>
    /\ fnOut.result.tag = "Ok"
    /\ Len(fnOut.result.value) = 4
----------------------------------------------------------------------------
(* The replenisher *)

\* Tokens of the pool: those that can be claimed and those held by callers
TokensOut == permits + Cardinality({t \in Tasks : pc[t] = "holding"})

\* The refill interval is period * 1000 / capacity milliseconds, rounded down
IntervalRoundedDown ==
    replenisher.state = "sleeping" =>
        /\ replenisher.sleep_duration * rate <= per_seconds * 1000
        /\ (replenisher.sleep_duration + 1) * rate > per_seconds * 1000

AllHandlesDropped == handles.pools # <<>> /\ handles.live = {}

\* C24: the replenisher is scoped to its governor: once every handle to a
\* governor has been dropped, the replenisher has stopped and no further
\* token is added to that governor's pool.
C24_ReplenisherStopsWithGovernor ==
    AllHandlesDropped =>
        /\ ticks = handles.ticksAtLastDrop
        /\ permits <= rate + handles.ticksAtLastDrop

\* The queue holds exactly the suspended callers
QueueIsTheWaiters ==
    /\ \A t \in Tasks : pc[t] = "waiting" <=> \E i \in 1..Len(waiters) : waiters[i] = t
    /\ \A i, j \in 1..Len(waiters) : waiters[i] = waiters[j] => i = j

\* C25: when a task waiting inside acquire() is cancelled before it is
\* admitted, the token count is left as if it had never called acquire()
\* (no token lost, none added), the other callers keep their places, and the
\* other waiters are still admitted later.
C25_CancelledWaiterLeavesNoTrace ==
    /\ []QueueIsTheWaiters
    /\ [][\A t \in Tasks :
            (pc[t] = "waiting" /\ pc'[t] = "idle") =>
                /\ permits' = permits
                /\ \A u \in Tasks \ {t} : pc'[u] = pc[u]
                /\ waiters' = SelectSeq(waiters, LAMBDA x : x # t)]_vars
    /\ \A t \in Tasks : (rate > 0 /\ pc[t] = "waiting") ~> (pc[t] # "waiting")

\* Task 2 called acquire() and was cancelled while task 3 waits behind it.
C25_Witness ==
    /\ rate = 1
    /\ pc[1] = "holding" /\ pc[2] = "idle" /\ pc[3] = "waiting"
    /\ waiters = <<3>>
    /\ ncalls = 3
    /\ TotalCompleted = 0
    /\ permits = 0
----------------------------------------------------------------------------
(* write_temp_file on its own *)

\* C26: for every byte sequence b, when write_temp_file(b) returns Ok(path),
\* the file at path exists after the call has returned and reading it
\* yields exactly b.
C26_TempFileReadable ==
    (fnPhase = "written" /\ fnOut.result.tag = "Ok") =>
        /\ disk.temp = "present"
        /\ disk.held = fnArg.bytes
----------------------------------------------------------------------------
(* The response interpreter of the bulk downloads *)

\* C27: on a bulk download, for every transport implementation, a response
\* with status 429 ends the call in RateLimitExceeded with the retry_after
\* parsed from the Retry-After header, never in ApiError, and nothing is
\* written to a temporary file or to the destination directory.
C27_BulkRateLimited429 ==
    (BulkCallDone /\ Received429) =>
        /\ result.tag = "Err"
        /\ result.kind = "RateLimitExceeded"
        /\ result.retry_after = ExpectedRetryAfter(wire.retry_after)
        /\ disk.temp = "none"
        /\ disk.files = {}
        /\ disk.dirs = {}
----------------------------------------------------------------------------
(* A governor of capacity zero *)

\* RateLimiter::new(0, period) returned a governor
ZeroCapacity == rate = 0 /\ handles.pools # <<>>

\* No token exists and none has been added or handed out
NoTokenEver ==
    /\ permits = 0
    /\ ticks = 0
    /\ TotalCompleted = 0
    /\ replenisher.state \in {"spawned", "panicked"}
    /\ \A t \in Tasks : pc[t] \in {"idle", "waiting"}

\* C28: RateLimiter::new(0, period) does not fail at construction: the
\* governor it returns holds zero tokens, its replenisher stops at the
\* division by zero and never adds a token, and every acquire() on it
\* blocks forever.
C28_ZeroCapacityBlocksForever ==
    /\ [](rate = 0 => (handles.live # {} /\ NoTokenEver))
    /\ [][\A t \in Tasks :
            (rate = 0 /\ pc[t] = "waiting") => pc'[t] = "waiting"]_vars
    /\ [][(rate = 0 /\ replenisher.state = "panicked") =>
            replenisher' = replenisher]_vars

C28_Witness ==
    /\ ZeroCapacity
    /\ replenisher.state = "panicked"
    /\ \A t \in Tasks : pc[t] = "waiting"
    /\ Len(waiters) = NumTasks
    /\ permits = 0
----------------------------------------------------------------------------
(* Clones of a governor *)

\* C29: all clones of a governor share one token pool, and cloning never
\* starts another replenisher: there is exactly one replenisher per call of
\* RateLimiter::new, however many clones exist.
C29_ClonesShareOnePool ==
    handles.pools # <<>> =>
        /\ \A h \in 1..Len(handles.pools) : handles.pools[h] = 1
        /\ handles.spawned = 1

C29_Witness ==
    /\ Len(handles.pools) = MaxHandles
    /\ handles.live = 1..MaxHandles
    /\ handles.spawned = 1
    /\ replenisher.state = "sleeping"
    /\ \E t \in Tasks : pc[t] = "holding"
----------------------------------------------------------------------------
(* Extraction that fails part-way *)

\* The extraction returned an error for an entry of the archive
FailedAtEntry ==
    /\ fnPhase = "applied"
    /\ fnOut.result.tag = "Err"
    /\ fnOut.reached >= 1

\* Entry i of the archive fails under the fault of the call
EntryFails(es, i, fault) ==
    \/ ~enclosed_name(es[i])
    \/ /\ fault.step = "extract"
       /\ fault.at = i
       /\ ~(fault.how = "mkdir" /\ ~es[i].dir)

\* The error the failing entry gives
EntryError(e, fault, i) ==
    IF fault.step = "extract" /\ fault.at = i /\ fault.how = "by_index"
    THEN "ZipError"
    ELSE IF ~enclosed_name(e) THEN "ZipError"
    ELSE "RequestError"

EntryPath(e) == Resolve(e.name, <<>>).path

IsPrefix(p, q) == Len(p) <= Len(q) /\ SubSeq(q, 1, Len(p)) = p

\* C30: extract_zip and extract_zip_from_memory process the es in
\* index order and stop at the first entry that fails: the call returns that
\* entry's error, every entry before it stays written in the destination (no
\* rollback), and no entry after it is written.
C30_StopsAtFirstFailingEntry ==
    FailedAtEntry =>
        LET es == fnArg.bytes.entries
            k == fnOut.reached
        IN
        /\ k <= Len(es)
        /\ \A i \in 1..(k - 1) : ~EntryFails(es, i, disk.fault)
        /\ fnOut.result = Err(EntryError(es[k], disk.fault, k))
        /\ \A i \in 1..(k - 1) :
              IF es[i].dir
              THEN EntryPath(es[i]) \in disk.dirs
              ELSE /\ \E f \in disk.files : f.path = EntryPath(es[i])
                   /\ (\A j \in (i + 1)..k : EntryPath(es[j]) # EntryPath(es[i]))
                        => [path |-> EntryPath(es[i]),
                            content |-> es[i].content] \in disk.files
        /\ \A f \in disk.files :
              \E i \in 1..k : ~es[i].dir /\ EntryPath(es[i]) = f.path
        /\ \A p \in disk.dirs \ {<<>>} :
              \E i \in 1..k : enclosed_name(es[i]) /\ IsPrefix(p, EntryPath(es[i]))

\* The first entry was written, the second failed while it was copied.
C30_Witness ==
    /\ FailedAtEntry
    /\ fnOut.reached = 2
    /\ Len(fnArg.bytes.entries) = 2
    /\ disk.fault = [step |-> "extract", at |-> 2, how |-> "copy"]
    /\ [path |-> <<"a.txt">>, content |-> "A"] \in disk.files
    /\ [path |-> <<"d", "b.txt">>, content |-> "partial"] \in disk.files
====
